---- MODULE Spec2Model ----
(***************************************************************************)
(* A model of the generative-poster apps: the blob shape generator, the    *)
(* palette provider with its palette.csv bootstrap, and the poster         *)
(* composers of the app variants (src/app.py, src/app2.py and the five     *)
(* variants concatenated in src/unnamed/part_000).                         *)
(*                                                                         *)
(* Numbers.  Every real of the program is a fixed-point integer in         *)
(* thousandths (0.15 is 150); a product of two such numbers is Mul.        *)
(* The two random sources the code uses, Python's global `random` and      *)
(* numpy's global `np.random`, are each one integer of state advanced by a *)
(* linear congruential step; a draw advances the state and returns it      *)
(* scaled into [0,1).                                                      *)
(***************************************************************************)
EXTENDS Integers, Sequences, FiniteSets, TLC

VARIABLES
    pyRng,      \* state of the process-wide `random` module generator
    npRng,      \* state of the process-wide `np.random` generator
    file,       \* palette.csv: Absent, Empty, or a table
    boot,       \* per process: where it is in the palette.csv bootstrap
    req,        \* per request: the compose call in progress
    blobCall,   \* one call of blob(): arguments and outcome
    palCall,    \* one call of make_palette(): arguments and outcome
    disturbs    \* draws other code has taken from the generators

vars == <<pyRng, npRng, file, boot, req, blobCall, palCall, disturbs>>

(***************************************************************************)
(* Bounds of the model.                                                    *)
(***************************************************************************)
\* Size of each generator's state space.
RngMod == 8
\* Largest point count handed to blob() when it is called on its own.
MaxPoints == 4
\* A layer count of the 3D-style poster at which both alpha clamps act.
DeepLayers == 8
\* Largest number of data rows of a generated palette table.
MaxRows == 2
\* Largest palette size k asked of make_palette() called on its own.
MaxK == 2
\* Number of processes that run the palette.csv bootstrap.
NProcs == 2
\* Largest layer count a caller passes to a composer.
MaxLayers == 3
\* Largest seed a request carries.
MaxSeed == 1
\* Points per blob in a poster, standing for the default points=200.
Points == 10
\* Draws other code takes from the generators between two compose calls.
MaxDisturb == 1

RngStates == 0 .. (RngMod - 1)

(***************************************************************************)
(* Fixed-point arithmetic and the random sources.                          *)
(***************************************************************************)
Mul(a, b) == (a * b) \div 1000

Min(a, b) == IF a <= b THEN a ELSE b

Max(a, b) == IF a >= b THEN a ELSE b

\* One step of the `random` generator, and of the `np.random` generator.
PyNext(s) == (5 * s + 3) % RngMod

NpNext(s) == (5 * s + 1) % RngMod

\* The value in [0,1) a draw returns, read off the state after the step.
Unit(s) == (s * 1000) \div RngMod

RECURSIVE PyAdvance(_, _)
PyAdvance(s, n) == IF n <= 0 THEN s ELSE PyAdvance(PyNext(s), n - 1)

RECURSIVE NpAdvance(_, _)
NpAdvance(s, n) == IF n <= 0 THEN s ELSE NpAdvance(NpNext(s), n - 1)

\* random.random(): the k-th draw after state s.
PyRandom(s, k) == Unit(PyAdvance(s, k))

\* np.random.rand(n)[k-1]: the k-th of n draws after state s.
NpRand(s, k) == Unit(NpAdvance(s, k))

\* random.seed(seed) / np.random.seed(seed): the state a seed selects.
SeedState(seed) == seed % RngMod

\* random.uniform(a, b) = a + (b - a) * random(), given the draw u.
Uniform(a, b, u) == a + Mul(b - a, u)

\* random.choice(seq) given the draw u: the chosen index, 1-based.
ChoiceIndex(n, u) == ((u * n) \div 1000) + 1

(***************************************************************************)
(* sin and cos of the angle 2*pi*i/d, in thousandths.  SinHalf(p, q) is    *)
(* sin(pi*p/q) for 0 <= p <= q by Bhaskara's rational approximation        *)
(* (exact at 0, 30, 90, 150 and 180 degrees).                              *)
(***************************************************************************)
SinHalf(p, q) == (16000 * p * (q - p)) \div (5 * q * q - 4 * p * (q - p))

SinTurn(i, d) ==
    IF d = 0 THEN 0
    ELSE LET p == (2 * i) % (2 * d)
         IN  IF p <= d THEN SinHalf(p, d) ELSE 0 - SinHalf(p - d, d)

CosTurn(i, d) ==
    IF d = 0 THEN 1000
    ELSE LET p == (4 * i + d) % (4 * d)
         IN  IF p <= 2 * d THEN SinHalf(p, 2 * d)
             ELSE 0 - SinHalf(p - 2 * d, 2 * d)

(***************************************************************************)
(* blob(center, r, points, wobble).  The variants differ in two places:    *)
(* app.py and app2.py space the angles with np.linspace's default          *)
(* endpoint=True (the last angle is 2*pi, the seam point comes twice), the *)
(* others with endpoint=False; and the final app weights the wobble by     *)
(* angle_factor = 0.6 + 0.4*cos(angle).                                    *)
(* The result is the polygon as a sequence of <<x, y>> and the np.random   *)
(* state after the `points` draws; np.linspace raises ValueError for a     *)
(* negative count, and that is the only failure of the function.           *)
(***************************************************************************)
BlobVariants == {"final", "plain", "week2"}

AngleDivisor(variant, points) ==
    IF variant = "week2" THEN points - 1 ELSE points

AngleFactor(variant, i, d) ==
    IF variant = "final" THEN 600 + Mul(400, CosTurn(i, d)) ELSE 1000

blob(variant, center, r, points, wobble, np) ==
    IF points < 0
    THEN [raised |-> "ValueError", poly |-> << >>, np |-> np]
    ELSE LET d == AngleDivisor(variant, points)
             radii(k) ==
                 Mul(r, 1000 + Mul(Mul(wobble, NpRand(np, k) - 500),
                                   AngleFactor(variant, k - 1, d)))
         IN  [raised |-> "none",
              poly   |-> [k \in 1 .. points |->
                            << center[1] + Mul(radii(k), CosTurn(k - 1, d)),
                               center[2] + Mul(radii(k), SinTurn(k - 1, d)) >>],
              np     |-> NpAdvance(np, points)]

(***************************************************************************)
(* The palette file and the idle values of the parts of the state.         *)
(***************************************************************************)
Absent == [kind |-> "absent"]

NoCall == [status |-> "none"]

(***************************************************************************)
(* palette.csv.  A table is its header (the column names, in file order)   *)
(* and its data rows (each the cells of one line, in file order; a numeric *)
(* cell is held as the number pandas parses it to).  A file that was       *)
(* opened for writing and not yet written is Empty.                        *)
(***************************************************************************)
Empty == [kind |-> "empty"]

Header == <<"name", "r", "g", "b">>

\* The table the final app writes on first run (part_000 lines 26-33).
DefaultTableFinal ==
    [kind   |-> "table",
     header |-> Header,
     rows   |-> << <<"deep_sea", 50, 100, 300>>,
                   <<"mid_sea", 100, 200, 500>>,
                   <<"shallow_sea", 200, 400, 700>>,
                   <<"wave_white", 900, 950, 1000>>,
                   <<"sea_green", 100, 300, 500>>,
                   <<"sun_blue", 300, 600, 900>> >>]

\* DEFAULT_PALETTE of the week-5 app (part_000 lines 386-407).
DEFAULT_PALETTE ==
    [kind   |-> "table",
     header |-> Header,
     rows   |-> << <<"amethyst", 600, 400, 800>>,
                   <<"byzantine", 740, 200, 640>>,
                   <<"eggplant", 380, 250, 320>>,
                   <<"electric_purple", 750, 0, 1000>>,
                   <<"grape", 440, 180, 660>>,
                   <<"lavender", 900, 900, 980>>,
                   <<"lilac", 780, 630, 780>>,
                   <<"magenta", 1000, 0, 1000>>,
                   <<"majesty", 420, 50, 680>>,
                   <<"mauve", 880, 690, 1000>>,
                   <<"mulberry", 770, 260, 550>>,
                   <<"orchid", 850, 440, 840>>,
                   <<"pansy", 390, 240, 590>>,
                   <<"thistle", 720, 650, 720>>,
                   <<"violet", 540, 170, 890>>,
                   <<"wisteria", 750, 610, 980>>,
                   <<"aztec_purple", 540, 230, 1000>>,
                   <<"baltimore_ravens_purple", 160, 10, 330>>,
                   <<"bright_lilac", 850, 570, 940>>,
                   <<"fuchsia_purple", 710, 330, 630>> >>]

IsTable(f) == f.kind = "table"

\* The position of column `name` in a header, 0 when the header lacks it.
ColumnOf(header, name) ==
    IF \E i \in 1 .. Len(header) : header[i] = name
    THEN CHOOSE i \in 1 .. Len(header) :
             /\ header[i] = name
             /\ \A j \in 1 .. (i - 1) : header[j] /= name
    ELSE 0

\* load_csv_palette(): pd.read_csv, then (row.r, row.g, row.b) of each row.
\* A missing file, an empty file and a header without r, g or b each raise.
load_csv_palette(f) ==
    IF f.kind = "absent"
    THEN [raised |-> "FileNotFoundError", cols |-> << >>]
    ELSE IF f.kind = "empty"
    THEN [raised |-> "EmptyDataError", cols |-> << >>]
    ELSE LET cr == ColumnOf(f.header, "r")
             cg == ColumnOf(f.header, "g")
             cb == ColumnOf(f.header, "b")
         IN  IF Len(f.rows) > 0 /\ (cr = 0 \/ cg = 0 \/ cb = 0)
             THEN [raised |-> "AttributeError", cols |-> << >>]
             ELSE [raised |-> "none",
                   cols   |-> [i \in 1 .. Len(f.rows) |->
                                 << f.rows[i][cr], f.rows[i][cg],
                                    f.rows[i][cb] >>]]

(***************************************************************************)
(* Procedural palettes.  hsv_to_rgb is matplotlib's conversion.            *)
(***************************************************************************)
hsv_to_rgb(h, s, v) ==
    LET h6 == 6 * h
        i  == (h6 \div 1000) % 6
        f  == h6 % 1000
        p  == Mul(v, 1000 - s)
        q  == Mul(v, 1000 - Mul(s, f))
        t  == Mul(v, 1000 - Mul(s, 1000 - f))
    IN  IF s = 0 THEN <<v, v, v>>
        ELSE CASE i = 0 -> <<v, t, p>>
               [] i = 1 -> <<q, v, p>>
               [] i = 2 -> <<p, v, t>>
               [] i = 3 -> <<p, q, v>>
               [] i = 4 -> <<t, p, v>>
               [] OTHER -> <<v, p, q>>

\* The make_palette of each app that has one; "csv" is a mode of the final
\* and the week-5 app only, and every unknown mode takes the last branch.
PaletteVariants == {"final", "week3", "week5"}

HasCsvMode(variant) == variant \in {"final", "week5"}

\* Random draws one color takes in a mode.
DrawsPerColor(variant, mode) == IF mode = "mono" THEN 2 ELSE 3

\* The hue drawn from u: the final app restricts it to the band [0.5, 0.7].
HueOf(variant, u) == IF variant = "final" THEN Uniform(500, 700, u) ELSE u

\* The lower end of the pastel value range: 0.8 in the final app, else 0.9.
PastelValueLow(variant) == IF variant = "final" THEN 800 ELSE 900

\* The color that starts drawing at state s.
PaletteColor(variant, mode, base_h, s) ==
    LET u(k) == PyRandom(s, k)
    IN  CASE mode = "pastel" ->
               hsv_to_rgb(HueOf(variant, u(1)), Uniform(150, 350, u(2)),
                          Uniform(PastelValueLow(variant), 1000, u(3)))
          [] mode = "vivid" ->
               hsv_to_rgb(HueOf(variant, u(1)), Uniform(800, 1000, u(2)),
                          Uniform(800, 1000, u(3)))
          [] mode = "mono" ->
               hsv_to_rgb(base_h, Uniform(200, 600, u(1)),
                          Uniform(500, 1000, u(2)))
          [] OTHER ->
               hsv_to_rgb(HueOf(variant, u(1)), Uniform(300, 1000, u(2)),
                          Uniform(500, 1000, u(3)))

\* make_palette cutting a loaded table down to the k colors asked for.
make_palette_first_k(variant, k, mode, base_h, f, py) ==
    IF mode = "csv" /\ HasCsvMode(variant)
    THEN LET res == load_csv_palette(f)
         IN  [raised |-> res.raised,
              cols   |-> SubSeq(res.cols, 1, Min(Max(k, 0), Len(res.cols))),
              py     |-> py]
    ELSE [raised |-> "none", cols |-> << >>, py |-> py]

make_palette(variant, k, mode, base_h, f, py) ==
    IF mode = "csv" /\ HasCsvMode(variant)
    THEN LET res == load_csv_palette(f)
         IN  [raised |-> res.raised, cols |-> res.cols, py |-> py]
    ELSE LET n == DrawsPerColor(variant, mode)
             m == Max(k, 0)
         IN  [raised |-> "none",
              cols   |-> [j \in 1 .. m |->
                            PaletteColor(variant, mode, base_h,
                                         PyAdvance(py, (j - 1) * n))],
              py     |-> PyAdvance(py, m * n)]

\* random_palette(k) of app.py: three draws per color, taken as r, g, b.
random_palette(k, py) ==
    [cols |-> [j \in 1 .. Max(k, 0) |->
                 << PyRandom(py, 3 * (j - 1) + 1), PyRandom(py, 3 * (j - 1) + 2),
                    PyRandom(py, 3 * (j - 1) + 3) >>],
     py   |-> PyAdvance(py, 3 * Max(k, 0))]

(***************************************************************************)
(* Calling blob() on its own: Init draws the arguments, CallBlob applies   *)
(* the function.                                                           *)
(***************************************************************************)
BlobArgs ==
    [variant : BlobVariants,
     center  : {<<500, 500>>, <<0, 0>>},
     r       : {0, 300},
     points  : (0 - 1) .. MaxPoints,
     wobble  : {0, 150}]

InitBlob ==
    /\ disturbs = 0
    /\ pyRng = 0
    /\ npRng \in RngStates
    /\ file = Absent
    /\ boot = << >>
    /\ req = << >>
    /\ palCall = NoCall
    /\ blobCall \in {[status |-> "pending", args |-> a] : a \in BlobArgs}

CallBlob ==
    /\ blobCall.status = "pending"
    /\ LET a   == blobCall.args
           res == blob(a.variant, a.center, a.r, a.points, a.wobble, npRng)
       IN  /\ blobCall' = [status |-> IF res.raised = "none" THEN "returned"
                                      ELSE "raised",
                           args   |-> a,
                           raised |-> res.raised,
                           poly   |-> res.poly]
           /\ npRng' = res.np
    /\ UNCHANGED <<pyRng, file, boot, req, palCall, disturbs>>

NextBlob == CallBlob

SpecBlob == InitBlob /\ [][NextBlob]_vars

(***************************************************************************)
(* Calling make_palette() on its own, on any palette file.                 *)
(***************************************************************************)
RowSet ==
    { <<"deep_sea", 50, 100, 300>>, <<"wave_white", 900, 950, 1000>>,
      <<"sun_blue", 300, 600, 900>> }

\* Rows whose cells follow the column order name, b, g, r.
Reordered(rows) ==
    [i \in 1 .. Len(rows) |-> <<rows[i][1], rows[i][4], rows[i][3], rows[i][2]>>]

RowSeqs == UNION {[1 .. m -> RowSet] : m \in 0 .. MaxRows}

Tables ==
    {[kind |-> "table", header |-> Header, rows |-> rs] : rs \in RowSeqs}
    \cup {[kind |-> "table", header |-> <<"name", "b", "g", "r">>,
           rows |-> Reordered(rs)] : rs \in RowSeqs}
    \cup {DefaultTableFinal, DEFAULT_PALETTE}

\* A table without the b column.
MalformedTable ==
    [kind |-> "table", header |-> <<"name", "r", "g">>,
     rows |-> << <<"deep_sea", 50, 100>> >>]

Files == Tables \cup {Absent, Empty, MalformedTable}

Modes == {"pastel", "vivid", "mono", "random", "csv"}

PaletteArgs ==
    [variant : PaletteVariants,
     k       : (0 .. MaxK) \cup {6},
     mode    : Modes \cup {"neon"},
     base_h  : {600}]

InitPalette ==
    /\ disturbs = 0
    /\ pyRng \in RngStates
    /\ npRng = 0
    /\ file \in Files
    /\ boot = << >>
    /\ req = << >>
    /\ blobCall = NoCall
    /\ palCall \in {[status |-> "pending", args |-> a] : a \in PaletteArgs}

CallPalette ==
    /\ palCall.status = "pending"
    /\ LET a   == palCall.args
           res == make_palette(a.variant, a.k, a.mode, a.base_h, file, pyRng)
       IN  /\ palCall' = [status |-> IF res.raised = "none" THEN "returned"
                                     ELSE "raised",
                          args   |-> a,
                          py0    |-> pyRng,
                          raised |-> res.raised,
                          cols   |-> res.cols]
           /\ pyRng' = res.py
    /\ UNCHANGED <<npRng, file, boot, req, blobCall, disturbs>>

NextPalette == CallPalette

SpecPalette == InitPalette /\ [][NextPalette]_vars

\* The table has a header with the columns r, g and b, and m >= 1 rows.
WellFormed(f) ==
    /\ IsTable(f)
    /\ Len(f.rows) >= 1
    /\ \A c \in {"r", "g", "b"} : ColumnOf(f.header, c) /= 0

\* C8: in csv mode, for every k and every table of m >= 1 rows, make_palette
\* returns the m colors of the table in file order, one (r, g, b) per row,
\* whatever k is, and consumes no random draw.
C8_CsvPaletteIsTheTable ==
    (/\ palCall.status /= "pending"
     /\ palCall.status /= "none"
     /\ palCall.args.mode = "csv"
     /\ HasCsvMode(palCall.args.variant)
     /\ WellFormed(file))
    => /\ palCall.status = "returned"
       /\ Len(palCall.cols) = Len(file.rows)
       /\ \A i \in 1 .. Len(file.rows) :
              palCall.cols[i] = << file.rows[i][ColumnOf(file.header, "r")],
                                   file.rows[i][ColumnOf(file.header, "g")],
                                   file.rows[i][ColumnOf(file.header, "b")] >>
       /\ pyRng = palCall.py0

\* C8 witness: a csv palette was returned for a table whose row count
\* differs from the requested k.
C8_Witness ==
    /\ palCall.status = "returned"
    /\ palCall.args.mode = "csv"
    /\ HasCsvMode(palCall.args.variant)
    /\ WellFormed(file)
    /\ Len(file.rows) = 2
    /\ palCall.args.k = 6
    /\ palCall.cols[1] /= palCall.cols[2]

(***************************************************************************)
(* The palette.csv bootstrap, run at the top of the final app and of the   *)
(* week-5 app, so once per start of the script:                            *)
(*     if not os.path.exists(PALETTE_FILE): <open for writing; write>      *)
(* A process is at "start" before the test, at "open" once the test found  *)
(* no file, at "write" once it has opened the file (which creates or       *)
(* truncates it), and at "done" after.  `seen` remembers the file the test *)
(* looked at.                                                              *)
(***************************************************************************)
Procs == 1 .. NProcs

BootApps == {"final", "week5"}

\* not os.path.exists(PALETTE_FILE)
MustCreateAlways(f) == TRUE

MustCreate(f) == f.kind = "absent"

\* What each app writes.
DefaultTable(app) == IF app = "final" THEN DefaultTableFinal ELSE DEFAULT_PALETTE

\* A table a user put in place of the defaults.
CustomTable ==
    [kind |-> "table", header |-> Header,
     rows |-> << <<"ink", 0, 0, 0>>, <<"paper", 1000, 1000, 1000>> >>]

BootFiles ==
    {Absent, Empty, DefaultTableFinal, DEFAULT_PALETTE, CustomTable,
     MalformedTable}

InitBoot ==
    /\ disturbs = 0
    /\ pyRng = 0
    /\ npRng = 0
    /\ file \in BootFiles
    /\ boot \in [Procs -> {[pc |-> "start", app |-> a, seen |-> Absent] :
                              a \in BootApps}]
    /\ req = << >>
    /\ blobCall = NoCall
    /\ palCall = NoCall

BootCheck(p) ==
    /\ boot[p].pc = "start"
    /\ boot' = [boot EXCEPT ![p].pc = IF MustCreate(file) THEN "open" ELSE "done",
                            ![p].seen = file]
    /\ UNCHANGED <<pyRng, npRng, file, req, blobCall, palCall, disturbs>>

BootOpen(p) ==
    /\ boot[p].pc = "open"
    /\ file' = Empty
    /\ boot' = [boot EXCEPT ![p].pc = "write"]
    /\ UNCHANGED <<pyRng, npRng, req, blobCall, palCall, disturbs>>

BootWrite(p) ==
    /\ boot[p].pc = "write"
    /\ file' = DefaultTable(boot[p].app)
    /\ boot' = [boot EXCEPT ![p].pc = "done"]
    /\ UNCHANGED <<pyRng, npRng, req, blobCall, palCall, disturbs>>

\* The script runs again (a restart, or a Streamlit rerun).
BootRerun(p) ==
    /\ boot[p].pc = "done"
    /\ boot' = [boot EXCEPT ![p].pc = "start"]
    /\ UNCHANGED <<pyRng, npRng, file, req, blobCall, palCall, disturbs>>

\* No other process is inside its bootstrap.
BootAlone(p) == \A q \in Procs \ {p} : boot[q].pc \in {"start", "done"}

\* One bootstrap at a time, each run to its end before the next starts.
SeqBootCheck(p) == BootAlone(p) /\ BootCheck(p)

SeqBootOpen(p) == BootAlone(p) /\ BootOpen(p)

SeqBootWrite(p) == BootAlone(p) /\ BootWrite(p)

SeqBootRerun(p) == BootAlone(p) /\ BootRerun(p)

NextBootSeq ==
    \/ \E p \in Procs : SeqBootCheck(p)
    \/ \E p \in Procs : SeqBootOpen(p)
    \/ \E p \in Procs : SeqBootWrite(p)
    \/ \E p \in Procs : SeqBootRerun(p)

SpecBootSeq == InitBoot /\ [][NextBootSeq]_vars

\* Processes started together: every interleaving of their steps.
NextBootConc ==
    \/ \E p \in Procs : BootCheck(p)
    \/ \E p \in Procs : BootOpen(p)
    \/ \E p \in Procs : BootWrite(p)
    \/ \E p \in Procs : BootRerun(p)

SpecBootConc == InitBoot /\ [][NextBootConc]_vars

\* C5: a bootstrap that finds a palette file, whatever its contents, leaves
\* it as it found it, however often it runs; only a bootstrap that finds no
\* file writes the default table.
C5_BootstrapIdempotent ==
    \A p \in Procs :
        boot[p].pc = "done" =>
            IF boot[p].seen.kind = "absent"
            THEN file = DefaultTable(boot[p].app)
            ELSE file = boot[p].seen

\* C5 witness: the bootstrap has run to its end in two processes on a table
\* that is not a default table, and the table is still there.
C5_Witness ==
    /\ \A p \in Procs : boot[p].pc = "done" /\ boot[p].seen = CustomTable
    /\ file = CustomTable

\* C6: when processes run the bootstrap concurrently, no step overwrites or
\* truncates a table that has been written.
C6_NoOverwriteOfCreatedTable == [][IsTable(file) => file' = file]_vars

(***************************************************************************)
(* The composers.  An app is one of the six scripts:                       *)
(*   "week2"  src/app.py, the inline generate handler                      *)
(*   "week9"  src/app2.py, the inline generate handler                     *)
(*   "final"  part_000 draw_poster (the wave poster)                       *)
(*   "week3"  part_000 generate_poster                                     *)
(*   "week4"  part_000 generate_3d_poster                                  *)
(*   "week5"  part_000 draw_poster (week 5)                                *)
(* A call carries `args`; fields an app does not take hold the defaults.   *)
(***************************************************************************)
Apps == {"week2", "week9", "final", "week3", "week4", "week5"}

\* seed=None of generate_poster.
NoSeed == 0 - 1

\* style=None of generate_poster.
NoStyle == "None"

\* The defaults of generate_poster's signature (part_000 lines 192-198).
DefaultArgs ==
    [n_layers     |-> 8,
     seed         |-> 0,
     wobble       |-> 150,
     palette_mode |-> "pastel",
     style        |-> NoStyle,
     radius_range |-> <<150, 450>>,
     wobble_range |-> <<50, 250>>,
     alpha_range  |-> <<250, 600>>]

STYLE_PRESETS ==
    [Minimal    |-> [n_layers |-> 5, wobble_range |-> <<20, 80>>,
                     alpha_range |-> <<300, 500>>, palette_mode |-> "pastel"],
     Vivid      |-> [n_layers |-> 12, wobble_range |-> <<50, 200>>,
                     alpha_range |-> <<350, 700>>, palette_mode |-> "vivid"],
     NoiseTouch |-> [n_layers |-> 14, wobble_range |-> <<120, 300>>,
                     alpha_range |-> <<250, 550>>, palette_mode |-> "mono"]]

\* PALETTES of app2.py, and the palette and wobble range each style selects.
PALETTES ==
    [Pastel     |-> << <<960, 750, 760>>, <<740, 890, 820>>, <<860, 800, 950>>,
                       <<970, 930, 760>>, <<750, 860, 960>> >>,
     Vivid      |-> << <<900, 300, 300>>, <<300, 600, 900>>, <<300, 900, 500>>,
                       <<950, 800, 250>>, <<700, 400, 900>> >>,
     NoiseTouch |-> << <<850, 800, 750>>, <<760, 820, 850>>, <<800, 830, 800>>,
                       <<900, 880, 800>>, <<700, 750, 700>> >>]

Week9Palette(style) ==
    IF style = "Minimal" THEN PALETTES.Pastel
    ELSE IF style = "Vivid" THEN PALETTES.Vivid
    ELSE PALETTES.NoiseTouch

Week9Wobble(style) ==
    IF style = "Minimal" THEN <<20, 120>>
    ELSE IF style = "Vivid" THEN <<100, 300>>
    ELSE <<50, 250>>

\* The resolution in which a field the caller set away from its default is
\* kept and the preset fills only the fields left at their defaults.
ResolveCallerWins(args) ==
    IF args.style \in DOMAIN STYLE_PRESETS
    THEN LET preset == STYLE_PRESETS[args.style]
             pick(field) ==
                 IF args[field] /= DefaultArgs[field] THEN args[field]
                 ELSE preset[field]
         IN  [n_layers     |-> pick("n_layers"),
              wobble_range |-> pick("wobble_range"),
              alpha_range  |-> pick("alpha_range"),
              palette_mode |-> pick("palette_mode"),
              radius_range |-> args.radius_range,
              wobble       |-> args.wobble]
    ELSE [n_layers     |-> args.n_layers,
          wobble_range |-> args.wobble_range,
          alpha_range  |-> args.alpha_range,
          palette_mode |-> args.palette_mode,
          radius_range |-> args.radius_range,
          wobble       |-> args.wobble]

\* generate_poster lines 200-205: a style the table knows replaces the four
\* fields the preset holds; the caller's values stand otherwise.
ResolvePreset(args) ==
    LET known  == args.style \in DOMAIN STYLE_PRESETS
        preset == STYLE_PRESETS[args.style]
    IN  [n_layers     |-> IF known THEN preset.n_layers ELSE args.n_layers,
         wobble_range |-> IF known THEN preset.wobble_range
                          ELSE args.wobble_range,
         alpha_range  |-> IF known THEN preset.alpha_range
                          ELSE args.alpha_range,
         palette_mode |-> IF known THEN preset.palette_mode
                          ELSE args.palette_mode,
         radius_range |-> args.radius_range,
         wobble       |-> args.wobble]

\* The concrete values a call composes with.
Resolve(app, args) ==
    CASE app = "week3" -> ResolvePreset(args)
      [] app = "week9" ->
           [n_layers     |-> args.n_layers,
            wobble_range |-> Week9Wobble(args.style),
            alpha_range  |-> <<250, 600>>,
            palette_mode |-> args.style,
            radius_range |-> <<150, 450>>,
            wobble       |-> args.wobble]
      [] app = "week2" ->
           [n_layers     |-> args.n_layers,
            wobble_range |-> args.wobble_range,
            alpha_range  |-> <<250, 600>>,
            palette_mode |-> "random",
            radius_range |-> <<150, 450>>,
            wobble       |-> args.wobble]
      [] app = "week5" ->
           [n_layers     |-> args.n_layers,
            wobble_range |-> <<args.wobble, args.wobble>>,
            alpha_range  |-> <<300, 600>>,
            palette_mode |-> args.palette_mode,
            radius_range |-> <<150, 450>>,
            wobble       |-> args.wobble]
      [] app = "week4" ->
           [n_layers     |-> args.n_layers,
            wobble_range |-> <<120, 120>>,
            alpha_range  |-> <<500, 1000>>,
            palette_mode |-> "none",
            radius_range |-> <<150, 450>>,
            wobble       |-> 120]
      [] OTHER ->
           [n_layers     |-> args.n_layers,
            wobble_range |-> <<args.wobble, args.wobble>>,
            alpha_range  |-> <<500, 800>>,
            palette_mode |-> args.palette_mode,
            radius_range |-> <<150, 400>>,
            wobble       |-> args.wobble]

(***************************************************************************)
(* A compose call in progress.  `canvas` is the figure: the shapes in the  *)
(* order they were painted, each tagged with the layer it belongs to;      *)
(* `draws` counts the random draws the call has made.  The call moves      *)
(* through "resolve", "seed", "palette", one "layer" step per layer and    *)
(* "label" to "done", or ends "failed" with the exception in `raised`.     *)
(***************************************************************************)
IdleReq ==
    [pc      |-> "idle",
     app     |-> "none",
     args    |-> DefaultArgs,
     cfg     |-> Resolve("final", DefaultArgs),
     palette |-> << >>,
     i       |-> 0,
     canvas  |-> << >>,
     raised  |-> "none",
     draws   |-> 0]

NewReq(app, args) == [IdleReq EXCEPT !.pc = "resolve", !.app = app, !.args = args]

Terminal == {"done", "failed"}

Shape(kind, layer, poly, color, alpha) ==
    [kind |-> kind, layer |-> layer, poly |-> poly, color |-> color,
     alpha |-> alpha]

\* ax.fill / plt.fill / ax.text: the new artist is drawn over the earlier ones.
FillUnder(canvas, shape) == <<shape>> \o canvas

Fill(canvas, shape) == Append(canvas, shape)

Fail(rq, exception) == [rq EXCEPT !.pc = "failed", !.raised = exception]

\* Where the loop over the layers goes once i layers are done.
LoopPc(i, n) == IF i < n THEN "layer" ELSE "label"

BlobVariantOf(app) ==
    IF app \in {"week2", "week9"} THEN "week2"
    ELSE IF app = "final" THEN "final" ELSE "plain"

\* The threshold of `np.sum(peak_mask) > 20`, for Points points instead of 200.
MinFoamPoints == (20 * Points) \div 200

StepResolve(rq, py, np) ==
    [rq |-> [rq EXCEPT !.cfg = Resolve(rq.app, rq.args), !.pc = "seed"],
     py |-> py, np |-> np]

\* random.seed(seed); np.random.seed(seed).  app.py calls random.seed()
\* with no argument (the state then comes from the system: `entropy`) and
\* never seeds np.random; generate_poster seeds only if seed is not None.
StepSeed(rq, py, np, entropy) ==
    LET next == [rq EXCEPT !.pc = "palette"]
    IN  CASE rq.app = "week2" -> [rq |-> next, py |-> entropy, np |-> np]
          [] rq.app = "week3" /\ rq.args.seed = NoSeed ->
               [rq |-> next, py |-> py, np |-> np]
          [] OTHER ->
               [rq |-> next, py |-> SeedState(rq.args.seed),
                np |-> SeedState(rq.args.seed)]

\* palette = make_palette(6, mode=palette_mode), or the app's own source.
StepPalette(rq, py, np, f) ==
    LET pal ==
            CASE rq.app \in PaletteVariants ->
                   make_palette(rq.app, 6, rq.cfg.palette_mode, 600, f, py)
              [] rq.app = "week2" ->
                   [raised |-> "none", cols |-> random_palette(6, py).cols,
                    py |-> random_palette(6, py).py]
              [] rq.app = "week9" ->
                   [raised |-> "none", cols |-> Week9Palette(rq.args.style),
                    py |-> py]
              [] OTHER -> [raised |-> "none", cols |-> << >>, py |-> py]
        used ==
            IF rq.app = "week2" THEN 18
            ELSE IF rq.app \in PaletteVariants
                    /\ ~(rq.cfg.palette_mode = "csv" /\ HasCsvMode(rq.app))
            THEN 6 * DrawsPerColor(rq.app, rq.cfg.palette_mode)
            ELSE 0
    IN  IF pal.raised /= "none"
        THEN [rq |-> Fail(rq, pal.raised), py |-> py, np |-> np]
        ELSE [rq |-> [rq EXCEPT !.palette = pal.cols,
                                !.draws = @ + used,
                                !.pc = LoopPc(0, rq.cfg.n_layers)],
              py |-> pal.py, np |-> np]

\* One layer of the scatter composers (app.py, app2.py, generate_poster and
\* the week-5 draw_poster): center, radius and (but in week 5) wobble are
\* drawn, then the color and the alpha; random.choice raises IndexError on
\* an empty palette.
ScatterLayer(rq, py, np) ==
    LET u(k)  == PyRandom(py, k)
        fixed == rq.app = "week5"
        nd    == IF fixed THEN 3 ELSE 4
        rr    == Uniform(rq.cfg.radius_range[1], rq.cfg.radius_range[2], u(3))
        wob   == IF fixed THEN rq.cfg.wobble
                 ELSE Uniform(rq.cfg.wobble_range[1], rq.cfg.wobble_range[2],
                              u(4))
        b     == blob(BlobVariantOf(rq.app), <<u(1), u(2)>>, rr, Points, wob, np)
        color == rq.palette[ChoiceIndex(Len(rq.palette), u(nd + 1))]
        alpha == Uniform(rq.cfg.alpha_range[1], rq.cfg.alpha_range[2],
                         u(nd + 2))
    IN  IF Len(rq.palette) = 0
        THEN [rq |-> Fail([rq EXCEPT !.draws = @ + nd + Points], "IndexError"),
              py |-> PyAdvance(py, nd), np |-> b.np]
        ELSE [rq |-> [rq EXCEPT
                        !.canvas = Fill(@, Shape("main", rq.i, b.poly, color,
                                                 alpha)),
                        !.draws = @ + nd + 2 + Points,
                        !.i = @ + 1,
                        !.pc = LoopPc(rq.i + 1, rq.cfg.n_layers)],
              py |-> PyAdvance(py, nd + 2), np |-> b.np]

\* One layer of generate_3d_poster: the shadow (the blob scaled about its
\* center and offset), then the main shape in a warm color for the first
\* half of the depths and a cool one for the rest.
DepthLayer(rq, py, np) ==
    LET u(k)   == PyRandom(py, k)
        depth  == rq.i
        cx     == u(1)
        cy     == u(2)
        rr     == Uniform(150, 450, u(3))
        b      == blob("plain", <<cx, cy>>, rr, Points, 120, np)
        shadow_alpha == Max(120 - depth * 20, 0)
        shadow_scale == 1050 + depth * 20
        shadow == [k \in 1 .. Len(b.poly) |->
                     << cx + Mul(b.poly[k][1] - cx, shadow_scale) + 15,
                        cy + Mul(b.poly[k][2] - cy, shadow_scale) - 15 >>]
        warm   == 2 * depth < rq.cfg.n_layers
        r      == IF warm THEN 800 + Uniform(0 - 200, 100, u(4))
                  ELSE 200 + Uniform(0, 100, u(4))
        g      == 400 + Uniform(0 - 100, 100, u(5))
        bl     == IF warm THEN 200 + Uniform(0, 100, u(6))
                  ELSE 800 + Uniform(0 - 200, 100, u(6))
        color  == <<Min(r, 1000), Min(g, 1000), Min(bl, 1000)>>
        alpha  == Min(500 + depth * 80, 1000)
    IN  [rq |-> [rq EXCEPT
                   !.canvas = Fill(Fill(@, Shape("shadow", depth, shadow,
                                                 <<200, 200, 200>>,
                                                 shadow_alpha)),
                                   Shape("main", depth, b.poly, color, alpha)),
                   !.draws = @ + 6 + Points,
                   !.i = @ + 1,
                   !.pc = LoopPc(depth + 1, rq.cfg.n_layers)],
         py |-> PyAdvance(py, 6), np |-> b.np]

\* The quantities of one layer of the final draw_poster (lines 86-89):
\* layer_ratio = layer / (n_layers - 1), cy = 0.2 + layer_ratio * 0.6 and
\* rr = 0.4 - layer_ratio * 0.25.
LayerRatio(layer, n_layers) == (layer * 1000) \div (n_layers - 1)

LayerCy(layer_ratio) == 200 + Mul(layer_ratio, 600)

LayerRr(layer_ratio) == 400 - Mul(layer_ratio, 250)

\* peak_mask = y > cy + rr * 0.6 (line 106): the indexes of the polygon's
\* points above the line, in order; np.sum(peak_mask) is their number.
PeakMask(poly, cy, rr) ==
    LET InPeak(k) == poly[k][2] > cy + Mul(rr, 600)
    IN  SelectSeq([k \in 1 .. Len(poly) |-> k], InPeak)

\* Line 93: the color comes from the layer's ratio, with no draw, when the
\* palette is the csv table of at least four rows.
ByRatio(rq) == rq.cfg.palette_mode = "csv" /\ Len(rq.palette) >= 4

\* Line 105: `layer_ratio > 0.7 and random.random() > 0.5`; the coin is the
\* draw after the center's and, if the color was chosen, the color's.
CoinFlip(rq, py) == PyRandom(py, (IF ByRatio(rq) THEN 1 ELSE 2) + 1) > 500

\* One layer of the final draw_poster (the wave poster).  layer_ratio
\* divides by n_layers - 1; the foam shape follows the main shape when
\* layer_ratio > 0.7, the coin flip random.random() > 0.5 succeeds and more
\* than the minimum of points lie above cy + rr * 0.6.
WaveLayer(rq, py, np) ==
    IF rq.cfg.n_layers - 1 = 0
    THEN [rq |-> Fail(rq, "ZeroDivisionError"), py |-> py, np |-> np]
    ELSE
    LET u(k)  == PyRandom(py, k)
        layer == rq.i
        layer_ratio == LayerRatio(layer, rq.cfg.n_layers)
        cx    == 500 + Mul(Mul(u(1) - 500, 400), 1000 - layer_ratio)
        cy    == LayerCy(layer_ratio)
        rr    == LayerRr(layer_ratio)
        b     == blob("final", <<cx, cy>>, rr, Points,
                      Mul(rq.cfg.wobble, 500 + layer_ratio), np)
        byRatio == ByRatio(rq)
        color == IF byRatio
                 THEN (IF layer_ratio < 300 THEN rq.palette[1]
                       ELSE IF layer_ratio < 600 THEN rq.palette[2]
                       ELSE rq.palette[3])
                 ELSE rq.palette[ChoiceIndex(Len(rq.palette), u(2))]
        nd    == IF byRatio THEN 1 ELSE 2
        alpha == 500 + Mul(layer_ratio, 300)
        main  == Shape("main", layer, b.poly, color, alpha)
        flip  == layer_ratio > 700
        heads == flip /\ CoinFlip(rq, py)
        peak  == PeakMask(b.poly, cy, rr)
        count == Len(peak)
        foams == heads /\ count > MinFoamPoints
        foam  == [j \in 1 .. count |->
                    << b.poly[peak[j]][1] + Mul(NpRand(b.np, j) - 500, 30),
                       b.poly[peak[j]][2]
                           + Mul(NpRand(b.np, count + j) - 500, 20) >>]
        foamColor == IF Len(rq.palette) >= 4 THEN rq.palette[4]
                     ELSE <<1000, 1000, 1000, 700>>
        pyUsed == nd + (IF flip THEN 1 ELSE 0)
        npUsed == Points + (IF foams THEN 2 * count ELSE 0)
        painted == Fill(rq.canvas, main)
    IN  IF ~byRatio /\ Len(rq.palette) = 0
        THEN [rq |-> Fail([rq EXCEPT !.draws = @ + 1 + Points], "IndexError"),
              py |-> PyAdvance(py, 1), np |-> b.np]
        ELSE [rq |-> [rq EXCEPT
                        !.canvas = IF foams
                                   THEN Fill(painted,
                                             Shape("foam", layer, foam,
                                                   foamColor, 500))
                                   ELSE painted,
                        !.draws = @ + pyUsed + npUsed,
                        !.i = @ + 1,
                        !.pc = LoopPc(layer + 1, rq.cfg.n_layers)],
              py |-> PyAdvance(py, pyUsed), np |-> NpAdvance(np, npUsed)]

StepLayer(rq, py, np) ==
    CASE rq.app = "final" -> WaveLayer(rq, py, np)
      [] rq.app = "week4" -> DepthLayer(rq, py, np)
      [] OTHER -> ScatterLayer(rq, py, np)

\* The text label: none in app.py, one line in the final app, two elsewhere.
LabelLines(app) == IF app = "week2" THEN 0 ELSE IF app = "final" THEN 1 ELSE 2

Labelled(canvas, n, lines) ==
    IF lines = 0 THEN canvas
    ELSE IF lines = 1
    THEN Fill(canvas, Shape("text", n, << >>, <<0, 0, 0>>, 1000))
    ELSE Fill(Fill(canvas, Shape("text", n, << >>, <<0, 0, 0>>, 1000)),
              Shape("text", n, << >>, <<0, 0, 0>>, 1000))

StepLabel(rq, py, np) ==
    [rq |-> [rq EXCEPT !.canvas = Labelled(@, rq.i, LabelLines(rq.app)),
                       !.pc = "done"],
     py |-> py, np |-> np]

\* One step of a call on the generators py, np and the palette file f.
Step(rq, py, np, f, entropy) ==
    CASE rq.pc = "resolve" -> StepResolve(rq, py, np)
      [] rq.pc = "seed"    -> StepSeed(rq, py, np, entropy)
      [] rq.pc = "palette" -> StepPalette(rq, py, np, f)
      [] rq.pc = "layer"   -> StepLayer(rq, py, np)
      [] rq.pc = "label"   -> StepLabel(rq, py, np)
      [] OTHER             -> [rq |-> rq, py |-> py, np |-> np]

\* The whole call, run with nothing else touching the generators.
RECURSIVE Run(_, _, _, _, _)
Run(rq, py, np, f, entropy) ==
    IF rq.pc \in Terminal \cup {"idle"} THEN rq
    ELSE LET m == Step(rq, py, np, f, entropy)
         IN  Run(m.rq, m.py, m.np, f, entropy)

Compose(app, args, py, np, f, entropy) ==
    Run(NewReq(app, args), py, np, f, entropy)

\* The layers of a figure: its main shapes, in paint order.
IsMain(shape) == shape.kind = "main"

Layers(canvas) == SelectSeq(canvas, IsMain)

(***************************************************************************)
(* Compose calls made one after another in one process.  The first call    *)
(* takes any app and arguments; the second is the same call made again     *)
(* (the same controls, generate pressed again).  Between calls other code  *)
(* of the process may draw from either generator.                          *)
(***************************************************************************)
Reqs == {1, 2}

Seeds == 0 .. MaxSeed

\* The layer sliders start at 3.
SliderLayers == {n \in 1 .. MaxLayers : n >= 3}

\* Everything but the radius range as the signature has it / all set.
RangeProfiles ==
    { [radius_range |-> <<150, 450>>, wobble_range |-> <<50, 250>>,
       alpha_range |-> <<250, 600>>],
      [radius_range |-> <<450, 150>>, wobble_range |-> <<0, 0>>,
       alpha_range |-> <<900, 1000>>] }

ArgsOf(app) ==
    CASE app = "week2" ->
           {[DefaultArgs EXCEPT !.n_layers = n, !.wobble_range = w] :
               n \in SliderLayers, w \in {<<50, 250>>, <<200, 100>>}}
      [] app = "week9" ->
           {[DefaultArgs EXCEPT !.n_layers = n, !.style = st, !.seed = sd] :
               n \in SliderLayers, st \in {"Minimal", "Vivid", "NoiseTouch"},
               sd \in Seeds}
      [] app = "week3" ->
           {[DefaultArgs EXCEPT !.n_layers = n, !.style = st, !.seed = sd,
                                !.radius_range = rp.radius_range,
                                !.wobble_range = rp.wobble_range,
                                !.alpha_range = rp.alpha_range,
                                !.palette_mode = pm] :
               n \in 0 .. MaxLayers, st \in {NoStyle, "Minimal", "Custom"},
               sd \in Seeds \cup {NoSeed}, rp \in RangeProfiles,
               pm \in {"pastel", "neon"}}
      [] app = "week4" ->
           {[DefaultArgs EXCEPT !.n_layers = n, !.seed = sd] :
               n \in (0 .. MaxLayers) \cup {DeepLayers}, sd \in Seeds}
      [] OTHER ->
           {[DefaultArgs EXCEPT !.n_layers = n, !.seed = sd, !.wobble = w,
                                !.palette_mode = pm] :
               n \in 0 .. MaxLayers, sd \in Seeds,
               w \in (IF app = "final" THEN {150, 2000} ELSE {150}),
               pm \in Modes \cup {"neon"}}

\* A table of three rows: too short for the by-ratio colors and the foam entry.
ShortTable ==
    [kind |-> "table", header |-> Header,
     rows |-> << <<"deep_sea", 50, 100, 300>>, <<"mid_sea", 100, 200, 500>>,
                 <<"shallow_sea", 200, 400, 700>> >>]

PosterFiles == {DefaultTableFinal, ShortTable}

Init ==
    /\ pyRng = 0
    /\ npRng = 0
    /\ file \in PosterFiles
    /\ boot = << >>
    /\ req = [r \in Reqs |-> IdleReq]
    /\ blobCall = NoCall
    /\ palCall = NoCall
    /\ disturbs = 0

Quiet == \A r \in Reqs : req[r].pc \in Terminal \cup {"idle"}

Generate(app, args) ==
    /\ req[1].pc = "idle"
    /\ req' = [req EXCEPT ![1] = NewReq(app, args)]
    /\ UNCHANGED <<pyRng, npRng, file, boot, blobCall, palCall, disturbs>>

Regenerate ==
    /\ req[1].pc \in Terminal
    /\ req[2].pc = "idle"
    /\ req' = [req EXCEPT ![2] = NewReq(req[1].app, req[1].args)]
    /\ UNCHANGED <<pyRng, npRng, file, boot, blobCall, palCall, disturbs>>

\* Call r takes the step whose outcome is m, on the process-wide generators.
Commit(r, m) ==
    /\ req' = [req EXCEPT ![r] = m.rq]
    /\ pyRng' = m.py
    /\ npRng' = m.np
    /\ UNCHANGED <<file, boot, blobCall, palCall, disturbs>>

DoResolve(r) ==
    /\ req[r].pc = "resolve"
    /\ Commit(r, StepResolve(req[r], pyRng, npRng))

DoSeed(r) ==
    /\ req[r].pc = "seed"
    /\ \E entropy \in (IF req[r].app = "week2" THEN RngStates ELSE {0}) :
           Commit(r, StepSeed(req[r], pyRng, npRng, entropy))

DoPalette(r) ==
    /\ req[r].pc = "palette"
    /\ Commit(r, StepPalette(req[r], pyRng, npRng, file))

DoLayer(r) ==
    /\ req[r].pc = "layer"
    /\ Commit(r, StepLayer(req[r], pyRng, npRng))

DoLabel(r) ==
    /\ req[r].pc = "label"
    /\ Commit(r, StepLabel(req[r], pyRng, npRng))

DisturbPy ==
    /\ Quiet
    /\ disturbs < MaxDisturb
    /\ pyRng' = PyNext(pyRng)
    /\ disturbs' = disturbs + 1
    /\ UNCHANGED <<npRng, file, boot, req, blobCall, palCall>>

DisturbNp ==
    /\ Quiet
    /\ disturbs < MaxDisturb
    /\ npRng' = NpNext(npRng)
    /\ disturbs' = disturbs + 1
    /\ UNCHANGED <<pyRng, file, boot, req, blobCall, palCall>>

Next ==
    \/ \E app \in Apps : \E args \in ArgsOf(app) : Generate(app, args)
    \/ Regenerate
    \/ \E r \in Reqs : DoResolve(r)
    \/ \E r \in Reqs : DoSeed(r)
    \/ \E r \in Reqs : DoPalette(r)
    \/ \E r \in Reqs : DoLayer(r)
    \/ \E r \in Reqs : DoLabel(r)
    \/ DisturbPy
    \/ DisturbNp

Spec == Init /\ [][Next]_vars

(***************************************************************************)
(* Claims about the composers.                                             *)
(***************************************************************************)
SameCall(a, b) == req[a].app = req[b].app /\ req[a].args = req[b].args

\* C1: two compose calls with the same PosterSpec and seed produce the same
\* sequence of layers (vertices, colors, alphas), whatever was drawn from
\* the generators before each call.
C1_SameSpecSameLayers ==
    (req[1].pc = "done" /\ req[2].pc = "done" /\ SameCall(1, 2)
     /\ req[1].args.seed /= NoSeed)
    => Layers(req[1].canvas) = Layers(req[2].canvas)

\* The composers that seed both generators from the seed they are given
\* (all but app.py's handler, and generate_poster when it is given one)
\* repeat the whole figure.
SeededCallsAgree ==
    (req[1].pc = "done" /\ req[2].pc = "done" /\ SameCall(1, 2)
     /\ req[1].args.seed /= NoSeed /\ req[1].app /= "week2")
    => req[1].canvas = req[2].canvas

\* C2: a compose call with n_layers = 1 ends without a division by zero and
\* with exactly one layer.
C2_OneLayerComposes ==
    \A r \in Reqs :
        (req[r].pc \in Terminal /\ req[r].cfg.n_layers = 1)
        => /\ req[r].pc = "done"
           /\ Len(Layers(req[r].canvas)) = 1

Inverted(range) == range[1] > range[2]

\* The resolved values of a call hold an invalid field.
InvalidSpec(rq) ==
    \/ rq.cfg.n_layers < 1
    \/ Inverted(rq.cfg.radius_range)
    \/ Inverted(rq.cfg.wobble_range)
    \/ Inverted(rq.cfg.alpha_range)
    \/ (rq.app \in PaletteVariants /\ rq.cfg.palette_mode \notin Modes)

\* C3: a call whose PosterSpec holds an invalid field ends in a
\* ValidationError with nothing painted; a poster is returned only for a
\* valid PosterSpec.
C3_InvalidSpecRejected ==
    \A r \in Reqs :
        (req[r].pc \notin {"idle", "resolve"} /\ InvalidSpec(req[r]))
        => /\ req[r].canvas = << >>
           /\ req[r].pc /= "done"
           /\ (req[r].pc = "failed" => req[r].raised = "ValidationError")

PresetFields == {"n_layers", "wobble_range", "alpha_range", "palette_mode"}

Resolved(r) == req[r].pc \notin {"idle", "resolve"}

\* C9 as stated: the preset is resolved before any random draw and every
\* field the caller set explicitly (here: to a value other than the
\* signature's default) keeps the caller's value.
C9_ExplicitFieldsKept ==
    \A r \in Reqs :
        (/\ req[r].app = "week3"
         /\ Resolved(r)
         /\ req[r].args.style \in DOMAIN STYLE_PRESETS)
        => \A field \in PresetFields :
               req[r].args[field] /= DefaultArgs[field]
               => req[r].cfg[field] = req[r].args[field]

\* C9 amended: the preset is resolved before any random draw; a style that
\* STYLE_PRESETS holds sets layer count, wobble range, alpha range and
\* palette mode to the preset's values whatever the caller passed, and the
\* caller's values for these stand only without such a style; the radius
\* range is always the caller's.
C9_PresetFieldsWin ==
    \A r \in Reqs :
        (req[r].app = "week3" /\ Resolved(r))
        => /\ (req[r].pc = "seed" => req[r].draws = 0)
           /\ req[r].cfg.radius_range = req[r].args.radius_range
           /\ \A field \in PresetFields :
                  req[r].cfg[field] =
                      IF req[r].args.style \in DOMAIN STYLE_PRESETS
                      THEN STYLE_PRESETS[req[r].args.style][field]
                      ELSE req[r].args[field]

\* C9 witness: generate_poster has run with a preset and with a layer count,
\* ranges and a palette mode of the caller's that differ from the preset's.
C9_Witness ==
    \E r \in Reqs :
        /\ req[r].app = "week3"
        /\ req[r].pc = "done"
        /\ req[r].args.style = "Minimal"
        /\ \A field \in PresetFields :
               /\ req[r].args[field] /= DefaultArgs[field]
               /\ req[r].args[field] /= STYLE_PRESETS.Minimal[field]
        /\ Len(Layers(req[r].canvas)) = 5

KindRank(kind) ==
    CASE kind = "shadow" -> 0 [] kind = "main" -> 1 [] kind = "foam" -> 2
      [] OTHER -> 3

\* Shape s may be painted before shape t.
PaintsBefore(s, t) ==
    IF s.kind = "text" THEN t.kind = "text"
    ELSE \/ t.kind = "text"
         \/ s.layer < t.layer
         \/ (s.layer = t.layer /\ KindRank(s.kind) < KindRank(t.kind))

\* C10: paint order is generation order: the k-th main shape painted is that
\* of layer k-1; every shape of a layer is painted before every shape of a
\* later layer; within a layer the shadow comes before the main shape and
\* the main shape before the foam; the text label comes after every shape.
C10_PaintOrderIsGenerationOrder ==
    \A r \in Reqs :
        LET c == req[r].canvas
        IN  /\ \A a, b \in 1 .. Len(c) : a < b => PaintsBefore(c[a], c[b])
            /\ \A k \in 1 .. Len(Layers(c)) : Layers(c)[k].layer = k - 1
            /\ (req[r].pc = "done" /\ LabelLines(req[r].app) > 0)
               => (Len(c) > 0 /\ c[Len(c)].kind = "text")

\* C10 witness: a wave poster with two layers, the second with foam, is
\* done: main, main, foam, label.
C10_Witness ==
    \E r \in Reqs :
        /\ req[r].pc = "done"
        /\ req[r].app = "final"
        /\ Len(req[r].canvas) = 4
        /\ req[r].canvas[3].kind = "foam"
        /\ req[r].canvas[4].kind = "text"

\* A 3D-style poster of three depths is done: shadow and main per depth,
\* then the two label lines.
DepthPosterDone ==
    \E r \in Reqs :
        /\ req[r].pc = "done"
        /\ req[r].app = "week4"
        /\ Len(req[r].canvas) = 8
        /\ req[r].canvas[1].kind = "shadow"

(***************************************************************************)
(* The accent pass of the wave poster, read off a step of the layer loop:  *)
(* the state before the step holds the generators the step draws from, the *)
(* state after it the shapes the step painted.                             *)
(***************************************************************************)
\* Request r's step paints layer req[r].i of a wave poster.
AccentStep(r) ==
    /\ req[r].app = "final"
    /\ req[r].pc = "layer"
    /\ req'[r].i = req[r].i + 1

\* The main shape the step painted, and the foam shape if it painted one.
MainPainted(r) == req'[r].canvas[Len(req[r].canvas) + 1]

FoamPainted(r) ==
    /\ Len(req'[r].canvas) = Len(req[r].canvas) + 2
    /\ req'[r].canvas[Len(req[r].canvas) + 2].kind = "foam"

StepRatio(r) == LayerRatio(req[r].i, req[r].cfg.n_layers)

\* The number of points of the base polygon with y > cy + rr * 0.6.
PeakPoints(r) ==
    Len(PeakMask(MainPainted(r).poly, LayerCy(StepRatio(r)),
                 LayerRr(StepRatio(r))))

\* The layer is high enough for foam and its coin flip succeeded.
FoamChance(r) == StepRatio(r) > 700 /\ CoinFlip(req[r], pyRng)

FoamAsSpecified(r) ==
    LET foam == req'[r].canvas[Len(req[r].canvas) + 2]
    IN  /\ foam.alpha = 500
        /\ foam.layer = req[r].i
        /\ foam.color = (IF Len(req[r].palette) >= 4 THEN req[r].palette[4]
                         ELSE <<1000, 1000, 1000, 700>>)

\* C11: in the accent pass of the wave poster, a layer with layer_ratio > 0.7
\* whose coin flip succeeded skips the foam shape exactly when fewer than
\* the minimum count (20) of base-polygon points lie above
\* layer_center_y + radius * 0.6; with the minimum count or more the foam is
\* painted (alpha 0.5, palette entry 3 if the palette has at least 4
\* entries, else translucent white); a layer with layer_ratio <= 0.7 gets
\* no foam.
C11_FoamFromMinimumCount ==
    [][\A r \in Reqs :
         AccentStep(r) =>
             /\ FoamChance(r)
                  => (FoamPainted(r) <=> PeakPoints(r) >= MinFoamPoints)
             /\ FoamPainted(r) => FoamAsSpecified(r)
             /\ StepRatio(r) <= 700 => ~FoamPainted(r)]_vars

\* What the code does instead: the foam is painted exactly when more than
\* the minimum count of points lie above the line.
FoamAboveMinimumCount ==
    [][\A r \in Reqs :
         AccentStep(r) =>
             /\ FoamPainted(r)
                  <=> (FoamChance(r) /\ PeakPoints(r) > MinFoamPoints)
             /\ FoamPainted(r) => FoamAsSpecified(r)]_vars

\* A layer whose coin flip succeeded has exactly the minimum count of points
\* above the line.
FoamAtMinimumCount ==
    [][\A r \in Reqs :
         (AccentStep(r) /\ FoamChance(r)) => PeakPoints(r) /= MinFoamPoints]_vars

(***************************************************************************)
(* The depth pass of the 3D-style poster, read off the painted shapes:     *)
(* each shape carries its depth index as `layer`.                          *)
(***************************************************************************)
DepthShapes(r, kind) ==
    {req[r].canvas[k] : k \in {j \in 1 .. Len(req[r].canvas) :
                                   req[r].canvas[j].kind = kind}}

AlphasWithinUnit(r) ==
    \A s \in DepthShapes(r, "main") \cup DepthShapes(r, "shadow") :
        0 <= s.alpha /\ s.alpha <= 1000

\* C12: in the 3D-style depth pass, for every layer count and all depth
\* indexes d < e, the main shape at depth e is at least as transparent as
\* the main shape at depth d (its alpha does not grow with depth), and every
\* main and shadow alpha stays within [0,1].
C12_DepthAlphaDoesNotGrow ==
    \A r \in Reqs :
        req[r].app = "week4" =>
            /\ \A s, t \in DepthShapes(r, "main") :
                   s.layer < t.layer => t.alpha <= s.alpha
            /\ AlphasWithinUnit(r)

\* What the code does instead: the main alpha grows with the depth index
\* (by 0.08 a depth, up to 1.0), the shadow alpha shrinks (by 0.02 a depth,
\* down to 0), and both stay within [0,1].
DepthAlphaGrows ==
    \A r \in Reqs :
        req[r].app = "week4" =>
            /\ \A s, t \in DepthShapes(r, "main") :
                   s.layer < t.layer
                       => /\ t.alpha >= s.alpha
                          /\ (t.alpha = s.alpha => s.alpha = 1000)
            /\ \A s, t \in DepthShapes(r, "shadow") :
                   s.layer < t.layer => t.alpha <= s.alpha
            /\ AlphasWithinUnit(r)

\* A 3D-style poster deep enough for both clamps is done: its last main
\* shape is opaque and its last shadow invisible.
DepthClampsReached ==
    \E r \in Reqs :
        /\ req[r].pc = "done"
        /\ req[r].app = "week4"
        /\ \E s \in DepthShapes(r, "main") : s.alpha = 1000
        /\ \E s \in DepthShapes(r, "shadow") : s.alpha = 0 /\ s.layer >= 7

(***************************************************************************)
(* Concurrent generation: two requests served in one process (Streamlit    *)
(* runs each session's script in a thread of its own), every interleaving  *)
(* of their steps on the process-wide generators.                          *)
(***************************************************************************)
ConcArgsOf(app) ==
    CASE app = "final" ->
           {[DefaultArgs EXCEPT !.n_layers = 2, !.seed = sd,
                                !.palette_mode = pm] :
               sd \in Seeds, pm \in {"pastel", "csv"}}
      [] app = "week3" ->
           {[DefaultArgs EXCEPT !.n_layers = 2, !.seed = sd] : sd \in Seeds}
      [] OTHER ->
           {[DefaultArgs EXCEPT !.n_layers = n, !.seed = sd,
                                !.style = "Minimal"] :
               n \in SliderLayers, sd \in Seeds}

ConcApps == {"final", "week3", "week9"}

InitConc ==
    /\ pyRng = 0
    /\ npRng = 0
    /\ file = DefaultTableFinal
    /\ boot = << >>
    /\ req = [r \in Reqs |-> IdleReq]
    /\ blobCall = NoCall
    /\ palCall = NoCall
    /\ disturbs = 0

Submit(r, app, args) ==
    /\ req[r].pc = "idle"
    /\ req' = [req EXCEPT ![r] = NewReq(app, args)]
    /\ UNCHANGED <<pyRng, npRng, file, boot, blobCall, palCall, disturbs>>

NextConc ==
    \/ \E r \in Reqs : \E app \in ConcApps : \E args \in ConcArgsOf(app) :
           Submit(r, app, args)
    \/ \E r \in Reqs : DoResolve(r)
    \/ \E r \in Reqs : DoSeed(r)
    \/ \E r \in Reqs : DoPalette(r)
    \/ \E r \in Reqs : DoLayer(r)
    \/ \E r \in Reqs : DoLabel(r)

SpecConc == InitConc /\ [][NextConc]_vars

\* C7: a request interleaved with another produces exactly the layers its
\* call produces when run alone: no draw or re-seed of one request changes
\* what the other draws.
C7_RequestsDoNotInterfere ==
    \A r \in Reqs :
        req[r].pc = "done"
        => Layers(req[r].canvas)
               = Layers(Compose(req[r].app, req[r].args, 0, 0, file, 0).canvas)

\* C4: a call of blob with point_count < 3 fails and returns no polygon; a
\* polygon is returned only when point_count >= 3.
C4_FewPointsRejected ==
    blobCall.status = "returned" => blobCall.args.points >= 3

====
